---- MODULE Spec2Model ----
(***************************************************************************)
(* Model of bot.py: a Telegram bot that relays chat messages to the        *)
(* `claude` command line program and keeps one assistant session per chat. *)
(*                                                                         *)
(* State: the sessions file, the update handlers (one per inbound update), *)
(* each handler's local variables, and what each handler has sent.         *)
(* main builds the Application without concurrent_updates and registers    *)
(* blocking handlers, so the dispatcher hands over an update when the      *)
(* handler of the one before has ended.  Within a handler a step is the    *)
(* code between two awaits; call_claude runs in a worker thread            *)
(* (run_in_executor) at the granularity of its file operations and of the  *)
(* subprocess call, beside the handler's keep_typing task.                 *)
(***************************************************************************)
EXTENDS Integers, Sequences, FiniteSets, TLC

VARIABLES
    allow,       \* ALLOWED_USER_IDS
    file,        \* SESSIONS_FILE on disk
    nextId,      \* source of uuid4 values: the next unused identifier
    pc,          \* per update: where its handler stands
    upd,         \* per update being handled, or just rejected: [kind, chat, user]
    sessions,    \* per update: local `sessions` of create_session_id / reset_session
    session_id,  \* per update: local `session_id` of call_claude
    failures,    \* number of session-related failures the assistant has reported so far
    result,      \* per update: value returned by call_claude (`response`)
    text,        \* per update: local `text` of chunk_message
    chunks,      \* per update: local `chunks` of chunk_message
    sent,        \* per update: number of chunks the delivery loop has handled
    replies,     \* per update: texts reply_text has delivered, in order
    launches,    \* per update: subprocess.run calls of its call_claude, in order: [mode, sid]
    ideal,       \* history: the mapping as the completed mutations define it
    typing,      \* per update: its keep_typing task, [task, calls]
    worked       \* history: per chat, a launch of the stored session has exited with 0

vars == <<allow, file, nextId, failures, pc, upd, sessions, session_id, result,
          text, chunks, sent, replies, launches, ideal,
          typing, worked>>

(* ------------------------------ bounds --------------------------------- *)

\* number of inbound updates considered
NumUpdates == 2
\* number of conversations
NumChats == 2
\* number of session-related failures the assistant reports in a run; the
\* recursion of call_claude stays below the interpreter's recursion limit
MaxSessionErrors == 2
\* MAX_MESSAGE_LENGTH (bot.py line 20 sets 4096), scaled down
MAX_MESSAGE_LENGTH == 6
\* longest text given to chunk_message in SpecChunk
MaxTextLen == 9
\* number of typing signals one keep_typing task sends
MaxSignals == 2

Updates == 1..NumUpdates
Chats == 1..NumChats
\* senders: 42 is the one on the allow-list when there is one
Users == {7, 42}
AllowSets == {{}, {42}}
\* the chunks that fit into memory; a loop of chunk_message that ends appends
\* at most one chunk per character and stays below
MaxChunks == MaxTextLen + 2

None == 0

Max(S) == CHOOSE x \in S : \A y \in S : y <= x
Min2(a, b) == IF a < b THEN a ELSE b

(* ------------------------------- texts --------------------------------- *)
(* A text is a sequence of characters.  A fixed message of the program,    *)
(* always far shorter than the limit, is a text of one symbol.  The prefix *)
(* of an error text is joined to error output of any length: it is a       *)
(* symbol that names the exit code, and the space it ends in.  With the    *)
(* limit scaled down, output longer than the limit is output built from    *)
(* MAX_MESSAGE_LENGTH (LongWord); a short output of the model is a short   *)
(* output of the program, and its text is delivered as one reply.          *)

Chars == {"a", " ", "\n"}
Whitespace == {" ", "\n"}

Rep(c, n) == [i \in 1..n |-> c]

NotAuthorized == <<"Not authorized.">>
Greeting == <<"Hello! I'm your remote Claude Code assistant.">>
HelpText == <<"I'm Claude Code running on your PC via Telegram.">>
ResetAck == <<"Conversation reset. Next message starts a fresh session.">>
EmptyResponse == <<"(empty response)">>
TimedOut == <<"Claude timed out after 5 minutes.">>
NotInstalled == <<"Error: claude CLI not found.">>
SendError == <<"(Error sending part of the response)">>
ErrorCallingJSON == <<"Error calling Claude: JSONDecodeError">>
UnknownError == <<"Unknown error">>
\* result.returncode of a launch that exits non-zero
ExitCodes == {1, 2}
\* f"Claude error (exit {result.returncode}): {error}"
ClaudeError(returncode, error) ==
    <<"Claude error (exit " \o ToString(returncode) \o "):", " ">> \o error

\* str.strip(): leading and trailing whitespace removed
Strip(s) ==
    LET keep == {i \in 1..Len(s) : s[i] \notin Whitespace}
    IN  IF keep = {} THEN <<>>
        ELSE SubSeq(s, CHOOSE i \in keep : \A j \in keep : i <= j, Max(keep))

\* str.lstrip("\n")
LStripNewlines(s) ==
    LET keep == {i \in 1..Len(s) : s[i] # "\n"}
    IN  IF keep = {} THEN <<>>
        ELSE SubSeq(s, CHOOSE i \in keep : \A j \in keep : i <= j, Len(s))

\* str.rfind(c, 0, end): the highest 0-based index below end holding c, or -1
RFind(s, c, end) ==
    LET hits == {i \in 0..(Min2(end, Len(s)) - 1) : s[i + 1] = c}
    IN  IF hits = {} THEN -1 ELSE Max(hits)

UpperCase == <<"A", "B", "C", "D", "E", "F", "G", "H", "I", "J", "K", "L", "M",
               "N", "O", "P", "Q", "R", "S", "T", "U", "V", "W", "X", "Y", "Z">>
LowerCase == <<"a", "b", "c", "d", "e", "f", "g", "h", "i", "j", "k", "l", "m",
               "n", "o", "p", "q", "r", "s", "t", "u", "v", "w", "x", "y", "z">>
\* str.lower() of one character; of the symbol that stands for "Unknown error"
LowerChar(c) ==
    IF \E i \in DOMAIN UpperCase : UpperCase[i] = c
    THEN LowerCase[CHOOSE i \in DOMAIN UpperCase : UpperCase[i] = c]
    ELSE IF c = "Unknown error" THEN "unknown error"
    ELSE c
\* str.lower()
Lower(s) == [i \in 1..Len(s) |-> LowerChar(s[i])]

\* `needle in s`: needle is a substring of s
Contains(s, needle) ==
    \E i \in 0..(Len(s) - Len(needle)) : SubSeq(s, i + 1, i + Len(needle)) = needle

SessionWord == <<"s", "e", "s", "s", "i", "o", "n">>
ResumeWord == <<"r", "e", "s", "u", "m", "e">>

\* variant of IsSessionError: every error text counts as session-related
IsSessionErrorAny(error) == TRUE
\* "session" in error.lower() or "resume" in error.lower()
IsSessionError(error) ==
    LET lower == Lower(error)
    IN  Contains(lower, SessionWord) \/ Contains(lower, ResumeWord)

(* --------------------------- session store ----------------------------- *)
(* The file is [kind, data, len]: missing, empty (opened for writing and   *)
(* truncated), json (a complete document holding mapping data), or corrupt *)
(* (a shorter document written over a longer one).  len is the document's  *)
(* size in entries; chat ids are taken to print with equally many digits.  *)

EmptyMap == <<>>
Missing == [kind |-> "missing", data |-> EmptyMap, len |-> 0]
Json(m) == [kind |-> "json", data |-> m, len |-> Cardinality(DOMAIN m)]

\* dict.get(key)
DictGet(m, k) == IF k \in DOMAIN m THEN m[k] ELSE None
\* dict[key] = value
DictSet(m, k, v) == [x \in (DOMAIN m) \cup {k} |-> IF x = k THEN v ELSE m[x]]
\* variants of dict.pop: the entry is not removed; every entry is removed
DictPopKeeps(m, k) == m
DictPopAll(m, k) == EmptyMap
\* dict.pop(key, None)
DictPop(m, k) == [x \in (DOMAIN m) \ {k} |-> m[x]]

\* load_sessions: whether json.loads raises, and the mapping returned otherwise
LoadRaises(f) == f.kind \in {"empty", "corrupt"}
load_sessions(f) == IF f.kind = "json" THEN f.data ELSE EmptyMap

\* Path.write_text, first half: open(mode "w") truncates the file
OpenTruncate(f) == [kind |-> "empty", data |-> EmptyMap, len |-> 0]
\* Path.write_text, second half: the document is written from offset 0; bytes
\* another writer put beyond its end stay
WriteText(f, m) ==
    IF f.len <= Cardinality(DOMAIN m) THEN Json(m)
    ELSE [kind |-> "corrupt", data |-> EmptyMap, len |-> f.len]

\* variant of get_session_id: the stored identifier is not found
get_session_id_absent(f, chat) == None
\* get_session_id on a readable file
get_session_id(f, chat) == DictGet(load_sessions(f), chat)

\* variant of is_allowed: an empty allow-set allows nobody
is_allowed_listed(user) == user \in allow
\* is_allowed
is_allowed(user) == allow = {} \/ user \in allow

(* ------------------------- subprocess outcomes ------------------------- *)

LongWord == Rep("a", MAX_MESSAGE_LENGTH + 1)
\* what the assistant may print on standard output
Stdouts ==
    { <<" ", "\n">>,
      <<" ", "a", "\n">>,
      <<"a", "a", "\n">> \o LongWord,
      <<"a", " ">> \o LongWord }
\* what the assistant may print on standard error when it exits non-zero:
\* nothing; "aaa" and a newline; a word that with the prefix of the error text
\* is one character longer than the limit; a word longer than the limit;
\* "Session not found"; "xRESUMEd"
Stderrs ==
    { <<>>,
      <<"a", "a", "a", "\n">>,
      Rep("a", MAX_MESSAGE_LENGTH - 1),
      LongWord,
      <<"S", "e", "s", "s", "i", "o", "n", " ", "n", "o", "t", " ",
        "f", "o", "u", "n", "d">>,
      <<"x", "R", "E", "S", "U", "M", "E", "d">> }

\* how a call of subprocess.run ends: the assistant exits 0 having printed data
\* on standard output, exits with a non-zero code having printed data on
\* standard error, runs into the timeout, or cannot be found
Outcomes ==
    [kind : {"ok"}, code : {0}, data : Stdouts]
        \cup [kind : {"exit"}, code : ExitCodes, data : Stderrs]
        \cup [kind : {"timeout", "notfound"}, code : {0}, data : {<<>>}]

\* result.stdout.strip() or "(empty response)"
SuccessText(stdout) ==
    IF Strip(stdout) = <<>> THEN EmptyResponse ELSE Strip(stdout)
\* result.stderr.strip() if result.stderr else "Unknown error"
ErrorText(stderr) ==
    IF stderr = <<>> THEN UnknownError ELSE Strip(stderr)

(* ------------------------------ handlers ------------------------------- *)

NoUpdate == [kind |-> "none", chat |-> 0, user |-> 0]
\* no keep_typing task has been created
NoTyping == [task |-> "none", calls |-> 0]
\* the keep_typing task has been cancelled (its count goes with it)
Cancelled == [task |-> "cancelled", calls |-> 0]

\* how an awaited call of the platform (reply_text, send_action) ends
SendOutcomes == {"sent", "raised"}

\* a handler has ended: it returned, it raised, or it returned having refused
\* the sender
Ended == {"done", "crashed", "rejected"}
\* Updates are numbered in the order the dispatcher takes them from the queue;
\* it takes the next one when the handler of the one before has ended.
NextToArrive(t) == pc[t] = "idle" /\ \A u \in Updates : u < t => pc[u] \in Ended

\* the stores the program may find when it starts: no file, an empty mapping,
\* or a session of conversation 1 kept from an earlier run
InitialStores == {Missing, Json(EmptyMap), Json(DictSet(EmptyMap, 1, 1))}

Init ==
    /\ allow \in AllowSets
    /\ file \in InitialStores
    /\ nextId = 1 + Cardinality(DOMAIN load_sessions(file))
    /\ pc = [t \in Updates |-> "idle"]
    /\ upd = [t \in Updates |-> NoUpdate]
    /\ sessions = [t \in Updates |-> EmptyMap]
    /\ session_id = [t \in Updates |-> None]
    /\ failures = 0
    /\ result = [t \in Updates |-> <<>>]
    /\ text = [t \in Updates |-> <<>>]
    /\ chunks = [t \in Updates |-> <<>>]
    /\ sent = [t \in Updates |-> 0]
    /\ replies = [t \in Updates |-> <<>>]
    /\ launches = [t \in Updates |-> <<>>]
    /\ ideal = load_sessions(file)
    /\ typing = [t \in Updates |-> NoTyping]
    /\ worked = [c \in Chats |-> c \in DOMAIN load_sessions(file)]

\* call_claude returns r in the worker thread (its locals are gone); the handler
\* has yet to resume
Return(t, r) ==
    /\ result' = [result EXCEPT ![t] = r]
    /\ pc' = [pc EXCEPT ![t] = "chunk_message"]
    /\ sessions' = [sessions EXCEPT ![t] = EmptyMap]
    /\ session_id' = [session_id EXCEPT ![t] = None]
    /\ launches' = [launches EXCEPT ![t] = <<>>]
    /\ UNCHANGED typing

\* the handler of update t ends in state p (returned: done; raised: crashed)
End(t, p) ==
    /\ pc' = [pc EXCEPT ![t] = p]
    /\ upd' = [upd EXCEPT ![t] = NoUpdate]

\* f without what it holds of the handlers that have ended
Forget(f, none) == [u \in Updates |-> IF pc[u] \in Ended THEN none ELSE f[u]]

\* The dispatcher hands update t to its handler, which runs to its first await
\* or to its end and stands at p, holding u.  The records of the handlers that
\* ended earlier are dropped.
Arrive(t, p, u) ==
    /\ pc' = [Forget(pc, "done") EXCEPT ![t] = p]
    /\ upd' = [Forget(upd, NoUpdate) EXCEPT ![t] = u]
    /\ replies' = [Forget(replies, <<>>) EXCEPT ![t] = <<>>]

\* An awaited reply_text(txt) that is the handler's last statement ends, in one
\* of the given ways: it returns, and the handler returns (p); it raises, and
\* the handler ends with the exception.
ReplyOnce(t, txt, p, sends) ==
    \E s \in sends :
        IF s = "sent"
        THEN /\ replies' = [replies EXCEPT ![t] = Append(@, txt)]
             /\ IF p = "rejected"
                THEN pc' = [pc EXCEPT ![t] = p] /\ UNCHANGED upd
                ELSE End(t, p)
        ELSE /\ End(t, "crashed")
             /\ UNCHANGED replies

\* handle_message, lines 169-182, up to its first await: authorization and the
\* empty text check, for a message of one of the given senders
handle_message(t, users) ==
    /\ NextToArrive(t)
    /\ \E chat \in Chats, user \in users, hasText \in BOOLEAN :
         LET u == [kind |-> "msg", chat |-> chat, user |-> user] IN
         IF ~is_allowed(user) THEN Arrive(t, "refuse", u)
         ELSE IF ~hasText THEN Arrive(t, "done", NoUpdate)
         ELSE Arrive(t, "send_action", u)
    /\ UNCHANGED <<worked, allow, failures, file, nextId, sessions, session_id, result, text,
                   chunks, sent, launches, ideal, typing>>

\* handle_message, lines 172-173: the reply to a sender that is not allowed
Refuse(t, sends) ==
    /\ pc[t] = "refuse"
    /\ ReplyOnce(t, NotAuthorized, "rejected", sends)
    /\ UNCHANGED <<worked, allow, failures, file, nextId, sessions, session_id, result, text,
                   chunks, sent, launches, ideal, typing>>

\* handle_message, lines 182-197: the first typing signal ends, in one of the
\* given ways.  When it returns the typing task is created and call_claude is
\* handed to the executor; when it raises the handler ends with the exception.
SendAction(t, sends) ==
    /\ pc[t] = "send_action"
    /\ \E s \in sends :
         IF s = "sent"
         THEN /\ pc' = [pc EXCEPT ![t] = "call_claude"]
              /\ typing' = [typing EXCEPT ![t] = [task |-> "running", calls |-> 0]]
              /\ UNCHANGED upd
         ELSE /\ End(t, "crashed")
              /\ UNCHANGED typing
    /\ UNCHANGED <<worked, allow, failures, file, nextId, sessions, session_id, result, text,
                   chunks, sent, replies, launches, ideal>>

\* start_command, lines 131-132, for a command of one of the given senders
start_command(t, users) ==
    /\ NextToArrive(t)
    /\ \E chat \in Chats, user \in users :
         Arrive(t, "start_reply", [kind |-> "start", chat |-> chat, user |-> user])
    /\ UNCHANGED <<worked, allow, failures, file, nextId, sessions, session_id, result, text,
                   chunks, sent, launches, ideal, typing>>

\* start_command, lines 133-144: the refusal or the greeting
StartReply(t, sends) ==
    /\ pc[t] = "start_reply"
    /\ IF is_allowed(upd[t].user)
       THEN ReplyOnce(t, Greeting, "done", sends)
       ELSE ReplyOnce(t, NotAuthorized, "rejected", sends)
    /\ UNCHANGED <<worked, allow, failures, file, nextId, sessions, session_id, result, text,
                   chunks, sent, launches, ideal, typing>>

\* help_command, lines 147-149, for a command of one of the given senders
help_command(t, users) ==
    /\ NextToArrive(t)
    /\ \E chat \in Chats, user \in users :
         LET u == [kind |-> "help", chat |-> chat, user |-> user] IN
         IF is_allowed(user)
         THEN Arrive(t, "help_reply", u)
         ELSE Arrive(t, "rejected", u)
    /\ UNCHANGED <<worked, allow, failures, file, nextId, sessions, session_id, result, text,
                   chunks, sent, launches, ideal, typing>>

\* help_command, lines 150-159: the help text
HelpReply(t, sends) ==
    /\ pc[t] = "help_reply"
    /\ ReplyOnce(t, HelpText, "done", sends)
    /\ UNCHANGED <<worked, allow, failures, file, nextId, sessions, session_id, result, text,
                   chunks, sent, launches, ideal, typing>>

\* reset_command, lines 162-165 up to the call of reset_session, for a command
\* of one of the given senders
reset_command(t, users) ==
    /\ NextToArrive(t)
    /\ \E chat \in Chats, user \in users :
         LET u == [kind |-> "reset", chat |-> chat, user |-> user] IN
         IF is_allowed(user)
         THEN Arrive(t, "reset_load", u)
         ELSE Arrive(t, "rejected", u)
    /\ UNCHANGED <<worked, allow, failures, file, nextId, sessions, session_id, result, text,
                   chunks, sent, launches, ideal, typing>>

\* call_claude, lines 73-75 and 80: get_session_id, and the launch with --resume
\* when a session is stored
GetSession(t) ==
    /\ pc[t] = "call_claude"
    /\ IF LoadRaises(file)
       THEN Return(t, ErrorCallingJSON)
       ELSE LET sid == get_session_id(file, upd[t].chat) IN
            IF sid # None
            THEN /\ session_id' = [session_id EXCEPT ![t] = sid]
                 /\ launches' = [launches EXCEPT ![t] =
                        Append(@, [mode |-> "resume", sid |-> sid])]
                 /\ pc' = [pc EXCEPT ![t] = "running"]
                 /\ UNCHANGED <<sessions, result, typing>>
            ELSE /\ pc' = [pc EXCEPT ![t] = "create_load"]
                 /\ UNCHANGED <<session_id, launches, sessions, result, typing>>
    /\ UNCHANGED <<worked, allow, failures, file, nextId, upd, text, chunks, sent, replies, ideal>>

\* create_session_id, lines 45-47: a new uuid, the mapping loaded and updated
CreateLoad(t) ==
    /\ pc[t] = "create_load"
    /\ nextId' = nextId + 1
    /\ IF LoadRaises(file)
       THEN Return(t, ErrorCallingJSON)
       ELSE /\ session_id' = [session_id EXCEPT ![t] = nextId]
            /\ sessions' = [sessions EXCEPT ![t] =
                   DictSet(load_sessions(file), upd[t].chat, nextId)]
            /\ pc' = [pc EXCEPT ![t] = "create_open"]
            /\ UNCHANGED <<result, launches, typing>>
    /\ UNCHANGED <<worked, allow, failures, file, upd, text, chunks, sent, replies, ideal>>

\* save_sessions in create_session_id, line 48: the file is opened and truncated
CreateOpen(t) ==
    /\ pc[t] = "create_open"
    /\ file' = OpenTruncate(file)
    /\ pc' = [pc EXCEPT ![t] = "create_write"]
    /\ UNCHANGED <<worked, allow, failures, nextId, upd, sessions, session_id, result, text,
                   chunks, sent, replies, launches, ideal,
                   typing>>

\* variant of CreateWrite: the assistant is launched and the document is not
\* written
CreateWriteLaunchesUnsaved(t) ==
    /\ pc[t] = "create_write"
    /\ file' = file
    /\ ideal' = DictSet(ideal, upd[t].chat, session_id[t])
    /\ sessions' = [sessions EXCEPT ![t] = EmptyMap]
    /\ launches' = [launches EXCEPT ![t] =
           Append(@, [mode |-> "session-id", sid |-> session_id[t]])]
    /\ worked' = [worked EXCEPT ![upd[t].chat] = FALSE]
    /\ pc' = [pc EXCEPT ![t] = "running"]
    /\ UNCHANGED <<allow, failures, nextId, upd, session_id, result, text, chunks, sent,
                   replies, typing>>
\* save_sessions in create_session_id, line 48: the document is written; then
\* call_claude, lines 78-80: the launch with --session-id
CreateWrite(t) ==
    /\ pc[t] = "create_write"
    /\ file' = WriteText(file, sessions[t])
    /\ ideal' = DictSet(ideal, upd[t].chat, session_id[t])
    /\ sessions' = [sessions EXCEPT ![t] = EmptyMap]
    /\ launches' = [launches EXCEPT ![t] =
           Append(@, [mode |-> "session-id", sid |-> session_id[t]])]
    /\ worked' = [worked EXCEPT ![upd[t].chat] = FALSE]
    /\ pc' = [pc EXCEPT ![t] = "running"]
    /\ UNCHANGED <<allow, failures, nextId, upd, session_id, result, text, chunks, sent,
                   replies, typing>>

\* call_claude, lines 80-103: the subprocess ends, or subprocess.run raises, in
\* one of the given ways
Finish(t, outcomes) ==
    /\ pc[t] = "running"
    /\ \E o \in outcomes :
         CASE o.kind = "ok" ->
                /\ Return(t, SuccessText(o.data))
                /\ worked' = [worked EXCEPT ![upd[t].chat] =
                       @ \/ DictGet(ideal, upd[t].chat) = session_id[t]]
                /\ UNCHANGED failures
           [] o.kind = "timeout" ->
                Return(t, TimedOut) /\ UNCHANGED <<failures, worked>>
           [] o.kind = "notfound" ->
                Return(t, NotInstalled) /\ UNCHANGED <<failures, worked>>
           [] o.kind = "exit" ->
                IF IsSessionError(ErrorText(o.data))
                THEN /\ failures < MaxSessionErrors
                     /\ failures' = failures + 1
                     /\ pc' = [pc EXCEPT ![t] = "reset_load"]
                     /\ UNCHANGED <<result, sessions, session_id, launches, typing,
                                    worked>>
                ELSE /\ Return(t, ClaudeError(o.code, ErrorText(o.data)))
                     /\ UNCHANGED <<failures, worked>>
    /\ UNCHANGED <<allow, file, nextId, upd, text, chunks, sent, replies, ideal>>

\* reset_session, lines 53-54: the mapping loaded and the entry popped.  When
\* json.loads raises, call_claude returns the error text (line 103) and
\* reset_command ends with the exception
ResetLoad(t) ==
    /\ pc[t] = "reset_load"
    /\ IF LoadRaises(file)
       THEN IF upd[t].kind = "reset"
            THEN /\ End(t, "crashed")
                 /\ UNCHANGED <<result, sessions, session_id, launches,
                                typing>>
            ELSE /\ Return(t, ErrorCallingJSON)
                 /\ UNCHANGED upd
       ELSE /\ sessions' = [sessions EXCEPT ![t] =
                   DictPop(load_sessions(file), upd[t].chat)]
            /\ pc' = [pc EXCEPT ![t] = "reset_open"]
            /\ UNCHANGED <<upd, result, session_id, launches, typing>>
    /\ UNCHANGED <<worked, allow, failures, file, nextId, text, chunks, sent, replies, ideal>>

\* save_sessions in reset_session, line 55: the file is opened and truncated
ResetOpen(t) ==
    /\ pc[t] = "reset_open"
    /\ file' = OpenTruncate(file)
    /\ pc' = [pc EXCEPT ![t] = "reset_write"]
    /\ UNCHANGED <<worked, allow, failures, nextId, upd, sessions, session_id, result, text,
                   chunks, sent, replies, launches, ideal,
                   typing>>

\* save_sessions in reset_session, line 55: the document is written.  In
\* reset_command the acknowledgement follows; in call_claude, line 95, the
\* recursive call
ResetWrite(t) ==
    /\ pc[t] = "reset_write"
    /\ file' = WriteText(file, sessions[t])
    /\ ideal' = DictPop(ideal, upd[t].chat)
    /\ worked' = [worked EXCEPT ![upd[t].chat] = FALSE]
    /\ IF upd[t].kind = "reset"
       THEN /\ pc' = [pc EXCEPT ![t] = "ack"]
            /\ sessions' = [sessions EXCEPT ![t] = EmptyMap]
            /\ UNCHANGED <<result, session_id, launches, typing>>
       ELSE /\ pc' = [pc EXCEPT ![t] = "call_claude"]
            /\ sessions' = [sessions EXCEPT ![t] = EmptyMap]
            /\ session_id' = [session_id EXCEPT ![t] = None]
            /\ UNCHANGED <<result, launches, typing>>
    /\ UNCHANGED <<allow, failures, nextId, upd, text, chunks, sent, replies>>

\* reset_command, line 166: the acknowledgement ends, in one of the given ways
Ack(t, sends) ==
    /\ pc[t] = "ack"
    /\ \E s \in sends :
         IF s = "sent"
         THEN /\ replies' = [replies EXCEPT ![t] = Append(@, ResetAck)]
              /\ End(t, "done")
         ELSE /\ End(t, "crashed")
              /\ UNCHANGED replies
    /\ UNCHANGED <<worked, allow, failures, file, nextId, sessions, session_id, result, text,
                   chunks, sent, launches, ideal, typing>>

\* keep_typing, lines 186-192: one pass of the loop of the typing task, while the
\* task is not cancelled: send_action is called and the task sleeps.  Whether
\* send_action raises makes no difference, line 190 catches the exception.
keep_typing(t) ==
    /\ typing[t].task = "running"
    /\ typing[t].calls < MaxSignals
    /\ \E s \in SendOutcomes :
          typing' = [typing EXCEPT ![t].calls = @ + 1]
    /\ UNCHANGED <<allow, file, nextId, failures, pc, upd, sessions, session_id, result,
                   text, chunks, sent, replies, launches, ideal,
                   worked>>

(* ---------------------------- chunk_message ---------------------------- *)

\* variant of the cut: a space is preferred to a newline
SplitAtSpaceFirst(s) ==
    LET nl == RFind(s, "\n", MAX_MESSAGE_LENGTH)
        sp == RFind(s, " ", MAX_MESSAGE_LENGTH)
    IN  IF sp # -1 THEN sp
        ELSE IF nl # -1 THEN nl
        ELSE MAX_MESSAGE_LENGTH
\* variant of the cut: the hard cut is one character beyond the limit
SplitAtBeyond(s) ==
    LET nl == RFind(s, "\n", MAX_MESSAGE_LENGTH)
        sp == RFind(s, " ", MAX_MESSAGE_LENGTH)
    IN  IF nl # -1 THEN nl
        ELSE IF sp # -1 THEN sp
        ELSE MAX_MESSAGE_LENGTH + 1
\* chunk_message, lines 119-123: where the text is cut
SplitAt(s) ==
    LET nl == RFind(s, "\n", MAX_MESSAGE_LENGTH)
        sp == RFind(s, " ", MAX_MESSAGE_LENGTH)
    IN  IF nl # -1 THEN nl
        ELSE IF sp # -1 THEN sp
        ELSE MAX_MESSAGE_LENGTH
\* variant of the chunk: the character before the cut is left out
BeforeDropsLast(s, k) == SubSeq(s, 1, k - 1)
\* chunk_message, line 124: text[:split_at]
Before(s, k) == SubSeq(s, 1, k)
\* variant of the remainder: the character at the cut is dropped
RestSkipsSeparator(s, k) == LStripNewlines(SubSeq(s, k + 2, Len(s)))
\* chunk_message, line 125: text[split_at:].lstrip("\n")
Rest(s, k) == LStripNewlines(SubSeq(s, k + 1, Len(s)))

\* chunk_message returns c to handle_message
ChunksReady(t, c) ==
    /\ chunks' = [chunks EXCEPT ![t] = c]
    /\ text' = [text EXCEPT ![t] = <<>>]
    /\ pc' = [pc EXCEPT ![t] = "deliver"]

\* variant of the entry of chunk_message: no early return for a short text
ChunkEnterLoops(t) ==
    /\ pc[t] = "chunk_message"
    /\ typing' = [typing EXCEPT ![t] = Cancelled]
    /\ text' = [text EXCEPT ![t] = result[t]]
    /\ chunks' = [chunks EXCEPT ![t] = <<>>]
    /\ pc' = [pc EXCEPT ![t] = "chunk_loop"]
    /\ UNCHANGED <<worked, allow, failures, file, nextId, upd, sessions, session_id, result,
                   sent, replies, launches, ideal>>
\* variant of the resumption of handle_message: the typing task is not cancelled
ChunkEnterLeavesTyping(t) ==
    /\ pc[t] = "chunk_message"
    /\ IF Len(result[t]) <= MAX_MESSAGE_LENGTH
       THEN ChunksReady(t, <<result[t]>>)
       ELSE /\ text' = [text EXCEPT ![t] = result[t]]
            /\ chunks' = [chunks EXCEPT ![t] = <<>>]
            /\ pc' = [pc EXCEPT ![t] = "chunk_loop"]
    /\ UNCHANGED <<worked, allow, failures, file, nextId, upd, sessions, session_id, result,
                   sent, replies, launches, ideal, typing>>
\* handle_message, lines 197-202: the awaited invocation has ended and the
\* handler resumes; the finally clause cancels the typing task; chunk_message,
\* lines 112-114
ChunkEnter(t) ==
    /\ pc[t] = "chunk_message"
    /\ typing' = [typing EXCEPT ![t] = Cancelled]
    /\ IF Len(result[t]) <= MAX_MESSAGE_LENGTH
       THEN ChunksReady(t, <<result[t]>>)
       ELSE /\ text' = [text EXCEPT ![t] = result[t]]
            /\ chunks' = [chunks EXCEPT ![t] = <<>>]
            /\ pc' = [pc EXCEPT ![t] = "chunk_loop"]
    /\ UNCHANGED <<worked, allow, failures, file, nextId, upd, sessions, session_id, result,
                   sent, replies, launches, ideal>>

\* what the handler holds is dropped when it ends
Drop(t) ==
    /\ typing' = [typing EXCEPT ![t] = NoTyping]
    /\ chunks' = [chunks EXCEPT ![t] = <<>>]
    /\ result' = [result EXCEPT ![t] = <<>>]
    /\ sent' = [sent EXCEPT ![t] = 0]
    /\ replies' = [replies EXCEPT ![t] = <<>>]

\* how a pass of the loop ends when list.append finds no memory: MemoryError is
\* raised, or the process is killed
MemoryOutcomes == {"raised", "killed"}

\* chunk_message, lines 115-126: one pass of the while loop.  A loop that does
\* not end fills the memory: line 124 then raises MemoryError, which nothing in
\* handle_message catches, or the process is killed.
ChunkLoop(t) ==
    /\ pc[t] = "chunk_loop"
    /\ IF text[t] = <<>>
       THEN /\ ChunksReady(t, chunks[t])
            /\ UNCHANGED <<upd, result, sent, replies, typing>>
       ELSE IF Len(text[t]) <= MAX_MESSAGE_LENGTH
       THEN /\ ChunksReady(t, Append(chunks[t], text[t]))
            /\ UNCHANGED <<upd, result, sent, replies, typing>>
       ELSE IF Len(chunks[t]) < MaxChunks
       THEN /\ chunks' = [chunks EXCEPT ![t] =
                   Append(@, Before(text[t], SplitAt(text[t])))]
            /\ text' = [text EXCEPT ![t] = Rest(@, SplitAt(@))]
            /\ UNCHANGED <<pc, upd, result, sent, replies, typing>>
       ELSE \E m \in MemoryOutcomes :
              IF m = "raised"
              THEN /\ End(t, "crashed")
                   /\ Drop(t)
                   /\ text' = [text EXCEPT ![t] = <<>>]
              ELSE /\ pc' = [pc EXCEPT ![t] = "killed"]
                   /\ UNCHANGED <<upd, result, sent, replies, typing, chunks, text>>
    /\ UNCHANGED <<worked, allow, failures, file, nextId, sessions, session_id,
                   launches, ideal>>

\* handle_message, lines 202-205: the awaited reply_text of the next chunk ends,
\* in one of the given ways: it returns, or it raises and the except clause is
\* entered; after the last chunk the handler returns
Deliver(t, sends) ==
    /\ pc[t] = "deliver"
    /\ IF sent[t] < Len(chunks[t])
       THEN \E s \in sends :
              IF s = "sent"
              THEN /\ replies' = [replies EXCEPT ![t] = Append(@, chunks[t][sent[t] + 1])]
                   /\ sent' = [sent EXCEPT ![t] = @ + 1]
                   /\ UNCHANGED <<pc, upd, chunks, result, typing>>
              ELSE /\ pc' = [pc EXCEPT ![t] = "notice"]
                   /\ UNCHANGED <<upd, chunks, result, typing, sent, replies>>
       ELSE End(t, "done") /\ Drop(t)
    /\ UNCHANGED <<worked, allow, failures, file, nextId, sessions, session_id, text,
                   launches, ideal>>

\* handle_message, lines 206-207: the awaited reply_text of the notice that
\* stands for a chunk ends, in one of the given ways: it returns and the loop
\* goes on, or it raises and the handler ends with the exception
Notice(t, sends) ==
    /\ pc[t] = "notice"
    /\ \E s \in sends :
         IF s = "sent"
         THEN /\ replies' = [replies EXCEPT ![t] = Append(@, SendError)]
              /\ sent' = [sent EXCEPT ![t] = @ + 1]
              /\ pc' = [pc EXCEPT ![t] = "deliver"]
              /\ UNCHANGED <<upd, chunks, result, typing>>
         ELSE End(t, "crashed") /\ Drop(t)
    /\ UNCHANGED <<worked, allow, failures, file, nextId, sessions, session_id, text,
                   launches, ideal>>

(* --------------------------- specifications ---------------------------- *)

\* The program: updates of any kind from any sender, handled one after the
\* other; any outcome of the assistant; any platform call may raise.
Next ==
    \E t \in Updates :
        \/ handle_message(t, Users)
        \/ Refuse(t, SendOutcomes)
        \/ SendAction(t, SendOutcomes)
        \/ start_command(t, Users)
        \/ StartReply(t, SendOutcomes)
        \/ help_command(t, Users)
        \/ HelpReply(t, SendOutcomes)
        \/ reset_command(t, Users)
        \/ GetSession(t)
        \/ CreateLoad(t)
        \/ CreateOpen(t)
        \/ CreateWrite(t)
        \/ Finish(t, Outcomes)
        \/ ResetLoad(t)
        \/ ResetOpen(t)
        \/ ResetWrite(t)
        \/ Ack(t, SendOutcomes)
        \/ keep_typing(t)
        \/ ChunkEnter(t)
        \/ ChunkLoop(t)
        \/ Deliver(t, SendOutcomes)
        \/ Notice(t, SendOutcomes)
Spec == Init /\ [][Next]_vars

\* The program where every subprocess ends or times out and every platform call
\* returns, and a step that can be taken is taken.
NextLive ==
    \E t \in Updates :
        \/ handle_message(t, Users)
        \/ Refuse(t, {"sent"})
        \/ SendAction(t, {"sent"})
        \/ start_command(t, Users)
        \/ StartReply(t, {"sent"})
        \/ help_command(t, Users)
        \/ HelpReply(t, {"sent"})
        \/ reset_command(t, Users)
        \/ GetSession(t)
        \/ CreateLoad(t)
        \/ CreateOpen(t)
        \/ CreateWrite(t)
        \/ Finish(t, Outcomes)
        \/ ResetLoad(t)
        \/ ResetOpen(t)
        \/ ResetWrite(t)
        \/ Ack(t, {"sent"})
        \/ keep_typing(t)
        \/ ChunkEnter(t)
        \/ ChunkLoop(t)
        \/ Deliver(t, {"sent"})
SpecLive == Init /\ [][NextLive]_vars /\ WF_vars(NextLive)

\* chunk_message, and the delivery of what it returns, applied to every text
\* up to MaxTextLen characters
Texts == UNION {[1..n -> Chars] : n \in 0..MaxTextLen}
InitChunk ==
    /\ allow = {}
    /\ file = Missing
    /\ nextId = 1
    /\ pc = [t \in Updates |-> IF t = 1 THEN "chunk_message" ELSE "idle"]
    /\ upd = [t \in Updates |-> IF t = 1
                THEN [kind |-> "msg", chat |-> 1, user |-> 42]
                ELSE NoUpdate]
    /\ sessions = [t \in Updates |-> EmptyMap]
    /\ session_id = [t \in Updates |-> None]
    /\ failures = 0
    /\ \E s \in Texts : result = [t \in Updates |-> IF t = 1 THEN s ELSE <<>>]
    /\ text = [t \in Updates |-> <<>>]
    /\ chunks = [t \in Updates |-> <<>>]
    /\ sent = [t \in Updates |-> 0]
    /\ replies = [t \in Updates |-> <<>>]
    /\ launches = [t \in Updates |-> <<>>]
    /\ ideal = EmptyMap
    /\ typing = [t \in Updates |-> IF t = 1
                   THEN [task |-> "running", calls |-> 0]
                   ELSE NoTyping]
    /\ worked = [c \in Chats |-> FALSE]
NextChunk == ChunkEnter(1) \/ ChunkLoop(1) \/ Deliver(1, {"sent"})
SpecChunk == InitChunk /\ [][NextChunk]_vars

(* ------------------------------- claims -------------------------------- *)

\* the launch appended by a step, when the step of update t is a launch
Launched(t) == Len(launches'[t]) = Len(launches[t]) + 1
\* the text s holds the word w at some place, each letter in either case
HoldsWord(s, w) ==
    \E i \in 0..(Len(s) - Len(w)) :
        \A k \in 1..Len(w) :
            \E j \in DOMAIN LowerCase :
                LowerCase[j] = w[k] /\ s[i + k] \in {LowerCase[j], UpperCase[j]}
\* the error text of a launch that exited non-zero having printed stderr: the
\* trimmed output, "Unknown error" when there was none
ErrorOf(stderr) == IF stderr = <<>> THEN UnknownError ELSE Strip(stderr)
\* the exits whose error text holds "session" or "resume", case-insensitive
\* (the set is put together outcome by outcome)
RetryOutcomes ==
    UNION {IF /\ o.kind = "exit"
              /\ \/ HoldsWord(ErrorOf(o.data), SessionWord)
                 \/ HoldsWord(ErrorOf(o.data), ResumeWord)
           THEN {o} ELSE {} : o \in Outcomes}

\* C1: one call of call_claude launches the assistant at most twice, the
\* original launch and one retry, whatever the subprocess outcomes are.
C1_AtMostTwoLaunches == \A t \in Updates : Len(launches[t]) <= 2

\* C2: a launch that exits non-zero with an error text that holds "session" or
\* "resume", case-insensitive, is followed by reset_session; the record of the
\* conversation is gone from the store when the retry starts; and the retry is
\* launched with --session-id and an identifier no earlier launch of the call
\* used, never with --resume of the failed identifier.
C2_RetryStartsFresh ==
    /\ [](\A t \in Updates : \A i \in 1..(Len(launches[t]) - 1) :
            /\ launches[t][i + 1].mode = "session-id"
            /\ \A j \in 1..i : launches[t][j].sid # launches[t][i + 1].sid)
    /\ [][\A t \in Updates : (pc[t] = "running" /\ pc'[t] # pc[t]) =>
            \A o \in RetryOutcomes : Finish(t, {o}) => pc'[t] = "reset_load"]_vars
    /\ [][\A t \in Updates :
            (pc[t] = "reset_write" /\ pc'[t] = "call_claude")
                => /\ ~LoadRaises(file')
                   /\ upd[t].chat \notin DOMAIN load_sessions(file')]_vars
C2_Retried ==
    \E t \in Updates : pc[t] = "running" /\ Len(launches[t]) = 2

\* C3: with the invocations of a conversation one after the other: a launch in a
\* conversation for which an earlier invocation started session S, with no reset
\* and no session failure since, is --resume S; a launch in a conversation
\* without one is --session-id with the identifier generated last, and that
\* identifier is S from then on.
C3_FirstStartsLaterResume ==
    [][\A t \in Updates : Launched(t) =>
          LET c == upd[t].chat
              l == launches'[t][Len(launches'[t])]
              S == DictGet(ideal, c)
          IN  IF S # None
              THEN l = [mode |-> "resume", sid |-> S]
              ELSE /\ l.mode = "session-id"
                   /\ l.sid = nextId - 1
                   /\ DictGet(ideal', c) = l.sid]_vars
C3_LaterResumed ==
    \E t \in Updates :
        /\ pc[t] = "running"
        /\ upd[t].chat \in DOMAIN ideal
        /\ launches[t] = <<[mode |-> "resume", sid |-> ideal[upd[t].chat]]>>

\* C5: the file is replaced atomically on every mutation: whoever reads it, at
\* whatever moment, finds the complete mapping of before the mutation or the
\* complete mapping of after it, never an empty or partly written file.
C5_FileReplacedAtomically == file.kind \in {"missing", "json"}

\* C7: with the store operations one after the other: after create_session_id
\* the store returns the identifier it returned; after reset_session it returns
\* none; reset_session raises nothing, entry or no entry; and either leaves the
\* entries of the other conversations as they were.
C7_StoreContract ==
    [][\A t \in Updates :
          LET c == upd[t].chat
              others == \A d \in Chats \ {c} :
                            get_session_id(file', d) = DictGet(ideal, d)
          IN  /\ (pc[t] = "create_write" /\ pc'[t] # pc[t])
                    => /\ ~LoadRaises(file')
                       /\ get_session_id(file', c) = session_id[t]
                       /\ others
              /\ (pc[t] = "reset_write" /\ pc'[t] # pc[t])
                    => /\ ~LoadRaises(file')
                       /\ get_session_id(file', c) = None
                       /\ others
              /\ (pc[t] = "reset_load" /\ pc'[t] # pc[t])
                    => pc'[t] = "reset_open"]_vars
C7_ResetKeptOthers ==
    \E t \in Updates :
        /\ pc[t] = "ack"
        /\ file.kind = "json"
        /\ upd[t].chat \notin DOMAIN file.data
        /\ DOMAIN file.data # {}

\* C8: a text message of a sender outside a non-empty allow-set is answered by
\* one call of reply_text, with "Not authorized.", after which the handler ends;
\* nothing is launched and the store is left as it is; no other message is
\* refused, so with an empty allow-set none is.
C8_UnauthorizedOnlyRefused ==
    /\ [](\A t \in Updates : upd[t].kind = "msg" =>
            LET denied == allow # {} /\ upd[t].user \notin allow
            IN  /\ denied => /\ pc[t] \in {"refuse", "rejected"}
                             /\ replies[t] =
                                    IF pc[t] = "refuse" THEN <<>> ELSE <<NotAuthorized>>
                             /\ launches[t] = <<>>
                /\ pc[t] \in {"refuse", "rejected"} => denied)
    /\ [][\A t \in Updates :
            /\ (pc[t] = "idle" /\ pc'[t] = "refuse")
                  => (file' = file /\ nextId' = nextId /\ launches' = launches)
            /\ (pc[t] = "refuse" /\ pc'[t] # pc[t])
                  => /\ pc'[t] \in {"rejected", "crashed"}
                     /\ file' = file /\ nextId' = nextId /\ launches' = launches]_vars
C8_Refused ==
    \E t \in Updates :
        /\ pc[t] = "rejected"
        /\ upd[t].kind = "msg"
        /\ upd[t].user \notin allow
        /\ replies[t] = <<NotAuthorized>>

\* C9: chunk_message terminates on every text.  A pass of its loop is decided by
\* the remaining text alone, so it terminates exactly if every pass that does
\* not return leaves a shorter text.
C9_EveryPassShortens ==
    [][(pc[1] = "chunk_loop" /\ pc'[1] = "chunk_loop")
          => Len(text'[1]) < Len(text[1])]_vars

\* C10: every segment chunk_message produces is at most MAX_MESSAGE_LENGTH long.
C10_ChunksWithinLimit ==
    \A i \in 1..Len(chunks[1]) : Len(chunks[1][i]) <= MAX_MESSAGE_LENGTH
C10_HardCut ==
    /\ pc[1] = "deliver"
    /\ Len(chunks[1]) >= 2
    /\ Len(chunks[1][1]) = MAX_MESSAGE_LENGTH
    /\ RFind(result[1], " ", MAX_MESSAGE_LENGTH) = -1
    /\ RFind(result[1], "\n", MAX_MESSAGE_LENGTH) = -1

\* what is left of the text o when the chunks cs are taken from its front one
\* after the other, the newlines that follow each chunk being dropped; a marker
\* when cs are not successive pieces of o
RECURSIVE Unchunk(_, _)
Unchunk(o, cs) ==
    IF cs = <<>> THEN o
    ELSE LET c == Head(cs) IN
         IF Len(c) <= Len(o) /\ SubSeq(o, 1, Len(c)) = c
         THEN Unchunk(LStripNewlines(SubSeq(o, Len(c) + 1, Len(o))), Tail(cs))
         ELSE <<"mismatch">>
\* total length of the chunks cs
RECURSIVE TotalLen(_)
TotalLen(cs) == IF cs = <<>> THEN 0 ELSE Len(Head(cs)) + TotalLen(Tail(cs))

\* C11: for a text longer than the limit the chunks are successive pieces of the
\* text, in order, between which only newlines that directly follow a cut are
\* missing: during the loop they lead up to the remaining text, at the return
\* they use the text up.
C11_ChunksRebuildText ==
    Len(result[1]) > MAX_MESSAGE_LENGTH =>
        /\ pc[1] = "chunk_loop" => Unchunk(result[1], chunks[1]) = text[1]
        /\ pc[1] = "deliver" => Unchunk(result[1], chunks[1]) = <<>>
C11_NewlineDropped ==
    /\ pc[1] = "deliver"
    /\ Len(chunks[1]) >= 2
    /\ TotalLen(chunks[1]) < Len(result[1])

\* C12: a pass that cuts a text longer than the limit cuts before the last
\* newline among the first MAX_MESSAGE_LENGTH characters when there is one,
\* otherwise before the last space among them when there is one, otherwise
\* after exactly MAX_MESSAGE_LENGTH characters.
C12_CutAtLastNewlineThenSpace ==
    [][(pc[1] = "chunk_loop" /\ Len(chunks'[1]) = Len(chunks[1]) + 1
            /\ Len(text[1]) > MAX_MESSAGE_LENGTH)
          => LET s == text[1]
                 nls == {i \in 1..MAX_MESSAGE_LENGTH : s[i] = "\n"}
                 sps == {i \in 1..MAX_MESSAGE_LENGTH : s[i] = " "}
                 cut == IF nls # {} THEN Max(nls) - 1
                        ELSE IF sps # {} THEN Max(sps) - 1
                        ELSE MAX_MESSAGE_LENGTH
             IN  chunks'[1][Len(chunks'[1])] = SubSeq(s, 1, cut)]_vars
C12_NewlineBeforeLaterSpace ==
    /\ pc[1] = "deliver"
    /\ Len(result[1]) > MAX_MESSAGE_LENGTH
    /\ \E i \in 2..MAX_MESSAGE_LENGTH, j \in 2..MAX_MESSAGE_LENGTH :
          /\ i < j
          /\ result[1][i] = "\n"
          /\ result[1][j] = " "
          /\ \A k \in (i + 1)..MAX_MESSAGE_LENGTH : result[1][k] # "\n"
          /\ chunks[1][1] = SubSeq(result[1], 1, i - 1)

\* C13: for a text no longer than the limit chunk_message returns the text as
\* the single chunk; for the empty text that is one empty chunk.
C13_ShortTextOneChunk ==
    (pc[1] = "deliver" /\ Len(result[1]) <= MAX_MESSAGE_LENGTH)
        => chunks[1] = <<result[1]>>
C13_EmptyTextOneEmptyChunk ==
    /\ pc[1] = "deliver"
    /\ result[1] = <<>>
    /\ chunks[1] = << <<>> >>

\* C20 as it stands: no chunk that chunk_message returns for a text longer
\* than the limit is empty.
C20_NoEmptyChunk ==
    (pc[1] = "deliver" /\ Len(result[1]) > MAX_MESSAGE_LENGTH)
        => \A i \in 1..Len(chunks[1]) : chunks[1][i] # <<>>
\* C20: of the chunks that chunk_message returns for a text longer than the
\* limit only the first can be empty, and only when the first character of the
\* text is the one newline among its first MAX_MESSAGE_LENGTH characters; and
\* handle_message sends an empty text only for such a text or for an empty one.
C20_EmptyChunkOnlyAtLeadingNewline ==
    /\ (pc[1] = "deliver" /\ Len(result[1]) > MAX_MESSAGE_LENGTH)
          => \A i \in 1..Len(chunks[1]) :
                chunks[1][i] = <<>>
                    => (i = 1 /\ RFind(result[1], "\n", MAX_MESSAGE_LENGTH) = 0)
    /\ \A i \in 1..Len(replies[1]) :
          replies[1][i] = <<>>
              => \/ result[1] = <<>>
                 \/ /\ Len(result[1]) > MAX_MESSAGE_LENGTH
                    /\ RFind(result[1], "\n", MAX_MESSAGE_LENGTH) = 0
C20_SpaceLedTextSent ==
    /\ pc[1] = "deliver"
    /\ Len(result[1]) > MAX_MESSAGE_LENGTH
    /\ result[1][1] = " "
    /\ Len(chunks[1]) >= 2
    /\ replies[1] = chunks[1]

\* C14: a failure to deliver a typing signal aborts no handler: when the
\* typing signal made before the typing task is created ends, the invocation is
\* handed over, whether the signal was delivered or not; and a signal of the
\* typing task leaves the handler where it stands.
C14_TypingFailureNeverAborts ==
    [][\A t \in Updates :
          /\ (pc[t] = "send_action" /\ pc'[t] # pc[t]) => pc'[t] = "call_claude"
          /\ typing'[t].calls > typing[t].calls => pc'[t] = pc[t]]_vars

\* C15: when the sending of a chunk fails the placeholder is sent in its place
\* and the chunks that remain are still attempted, whatever sends fail, the
\* placeholder's included: a failed send of a chunk leads to the send of the
\* placeholder, and when that send ends, delivered or not, the loop goes on
\* with the next chunk.
C15_RemainingChunksAttempted ==
    [][\A t \in Updates :
          /\ (pc[t] = "deliver" /\ sent[t] < Len(chunks[t]) /\ pc'[t] # pc[t])
                => (pc'[t] = "notice" /\ sent'[t] = sent[t])
          /\ (pc[t] = "notice" /\ pc'[t] # pc[t])
                => (pc'[t] = "deliver" /\ sent'[t] = sent[t] + 1)]_vars

\* the handler of update t has resumed after its invocation and is cutting or
\* delivering the response
Delivering(t) == pc[t] \in {"chunk_loop", "deliver", "notice"}

\* C16: the typing task lives within the invocation: it runs only in a handler
\* of a message that has handed over its invocation, it is cancelled in every
\* state in which the handler has resumed after the invocation, and every
\* typing signal is sent by a running task before that.
C16_TypingWithinInvocation ==
    /\ [](\A t \in Updates :
            /\ Delivering(t) => typing[t].task = "cancelled"
            /\ typing[t].task = "running" =>
                  (upd[t].kind = "msg" /\ pc[t] \notin Ended \cup {"idle"}))
    /\ [][\A t \in Updates :
            typing'[t].calls > typing[t].calls =>
                (~Delivering(t) /\ typing[t].task = "running" /\ pc'[t] = pc[t])]_vars
C16_CancelledAtDelivery ==
    \E t \in Updates :
        /\ pc[t] = "deliver"
        /\ sent[t] >= 1
        /\ typing[t].task = "cancelled"

\* the outcomes of a launch after which call_claude does not launch again: a
\* timeout, no executable, an exit with an error text without session vocabulary
NoRetryOutcomes ==
    UNION {IF \/ o.kind \in {"timeout", "notfound"}
              \/ o.kind = "exit" /\ o \notin RetryOutcomes
           THEN {o} ELSE {} : o \in Outcomes}
\* the text the claim has call_claude return for such an outcome: the fixed
\* message, or the exit code of the launch and its trimmed error text
ExitCodeText(code) ==
    CASE code = 1 -> "Claude error (exit 1):"
      [] code = 2 -> "Claude error (exit 2):"
NoRetryText(o) ==
    CASE o.kind = "timeout" -> TimedOut
      [] o.kind = "notfound" -> NotInstalled
      [] o.kind = "exit" -> <<ExitCodeText(o.code), " ">> \o ErrorOf(o.data)

\* C17 as it stands: when a launch ends in a timeout, without executable, or in
\* an exit with an error text that has neither "session" nor "resume", the
\* invocation has launched the assistant exactly once; call_claude returns the
\* text that belongs to the outcome and leaves the file, and so the record of
\* the conversation, as it is.
C17_LaunchedExactlyOnce ==
    [][\A t \in Updates : (pc[t] = "running" /\ pc'[t] # pc[t]) =>
          \A o \in NoRetryOutcomes : Finish(t, {o}) =>
              /\ Len(launches[t]) = 1
              /\ pc'[t] = "chunk_message"
              /\ result'[t] = NoRetryText(o)
              /\ file' = file
              /\ get_session_id(file', upd[t].chat) = session_id[t]]_vars
\* C17: when a launch ends in a timeout, without executable, or in an exit with
\* an error text that has neither "session" nor "resume", call_claude launches
\* nothing after it: it returns the text that belongs to the outcome, with the
\* exit code of that launch, generates no identifier and leaves the file as it
\* is, so that the store still holds the identifier that launch ran under.
\* That launch is the invocation's only one, or it is a retry, launched with
\* --session-id.
C17_FailureReturnedRecordKept ==
    [][\A t \in Updates : (pc[t] = "running" /\ pc'[t] # pc[t]) =>
          \A o \in NoRetryOutcomes : Finish(t, {o}) =>
              /\ pc'[t] = "chunk_message"
              /\ result'[t] = NoRetryText(o)
              /\ file' = file
              /\ nextId' = nextId
              /\ session_id[t] = launches[t][Len(launches[t])].sid
              /\ get_session_id(file', upd[t].chat) = session_id[t]
              /\ \/ Len(launches[t]) = 1
                 \/ launches[t][Len(launches[t])].mode = "session-id"]_vars
C17_FailedWithRecordKept ==
    \E t \in Updates :
        /\ pc[t] = "chunk_message"
        /\ result[t] = <<"Claude error (exit 2):", " ", "a", "a", "a">>
        /\ file.kind = "json"
        /\ upd[t].chat \in DOMAIN file.data
        /\ file.data[upd[t].chat] >= 2
        /\ failures >= 1

\* C19: the record of a new session is in the store when its launch starts; a
\* launch that ends in a timeout, without executable or in an error without
\* session vocabulary leaves it there; and a launch in a conversation with a
\* stored identifier resumes that identifier, whether or not a launch of it has
\* ever exited with 0.
C19_RecordOutlivesFailedLaunch ==
    /\ [][\A t \in Updates : Launched(t) =>
            LET l == launches'[t][Len(launches'[t])]
                S == get_session_id(file, upd[t].chat)
            IN  /\ l.mode = "session-id" => get_session_id(file', upd[t].chat) = l.sid
                /\ S # None => l = [mode |-> "resume", sid |-> S]]_vars
    /\ [][\A t \in Updates : (pc[t] = "running" /\ pc'[t] # pc[t]) =>
            \A o \in NoRetryOutcomes :
                Finish(t, {o}) => get_session_id(file', upd[t].chat) = session_id[t]]_vars
C19_ResumesNeverSucceeded ==
    \E t \in Updates :
        /\ pc[t] = "running"
        /\ Len(launches[t]) = 1
        /\ launches[t][1].mode = "resume"
        /\ launches[t][1].sid = DictGet(ideal, upd[t].chat)
        /\ ~worked[upd[t].chat]

\* C18: every text message with text of an allowed sender comes to the end of
\* its delivery loop with at least one reply sent, from where the handler
\* returns; whatever the subprocess outcomes, every subprocess ending and every
\* platform call returning.
C18_EveryMessageAnswered ==
    \A t \in Updates :
        (pc[t] = "send_action")
            ~> (pc[t] = "deliver" /\ sent[t] = Len(chunks[t]) /\ replies[t] # <<>>)
====
